---- MODULE Spec2Model ----
(***************************************************************************)
(* Model of the middleware composition core of lambda-middlewares          *)
(* (src/src/index.js): ensureAsync, createMiddleware, createHandler with   *)
(* its finalHandler entry point and its addMiddleware (.use) method,       *)
(* together with the example middlewares of the repository that the        *)
(* properties exercise (logMiddleware, errorMiddleware).                   *)
(*                                                                         *)
(* JavaScript is single threaded: a synchronous segment runs to its next   *)
(* await without interleaving.  The variable active names the invocation   *)
(* that holds the thread (0: the event loop is idle, so the caller or any  *)
(* suspended invocation may run next).                                     *)
(***************************************************************************)
EXTENDS Integers, Sequences, FiniteSets, TLC

\* ---------------------------------------------------------------- bounds
MaxMw == 2        \* longest middleware list explored
MaxInv == 2       \* number of invocations of the built handler explored

InvIds == 1..MaxInv

\* ------------------------------------- functions handed to the builder
\* Behaviours of the middleware functions handed to .use():
\*   append : r = await next(); return r + suffix   (logMiddleware shape)
\*   short  : returns "401" without calling next()
\*   throw  : synchronous function that throws
\*   reject : async function that rejects
\*   twice  : r1 = await next(); r2 = await next(); return r1 + "+" + r2
\*   catch  : try { return await next() } catch { return "500" }
\*            (errorMiddleware shape)
\* Every next() call of these functions is written with two arguments,
\* another event and another context (NextArguments).
MwKinds == {"append", "short", "throw", "reject", "twice", "catch"}

\* The middlewares that call next() at most once per execution
OnceKinds == MwKinds \ {"twice"}

\* Two more behaviours, for the builder used from inside its own chain and
\* for functions that do not end:
\*   use  : builder.use(extra); return next()      (synchronous function,
\*          extra has the append behaviour)
\*   hang : returns a promise that never settles, without calling next()
LiveKinds == {"append", "reject", "use", "hang"}

\* Behaviours of the terminal handler:
\*   async  : async, resolves "ok"
\*   count  : synchronous, returns "ok" followed by its call counter
\*   throw  : synchronous, throws "eh"
\*   reject : async, rejects with "eh"
HandlerKinds == {"async", "count", "throw", "reject"}

\*   hang   : returns a promise that never settles
LiveHandlerKinds == {"async", "reject", "hang"}

Mw(id, kind) == [id |-> id, kind |-> kind]
TerminalHandler(kind) == [id |-> 0, kind |-> kind]

\* Arguments that are not functions (typeof middleware !== 'function')
NonFunctions == {Mw(-1, "undefined"), Mw(-1, "object")}
IsFunction(arg) == arg \notin NonFunctions

\* Values produced by these functions
Suffix(id) == IF id = 1 THEN "-mw" ELSE "-mw" \o ToString(id)
MwError(id) == "e" \o ToString(id)
HandlerError == "eh"
Unauthorized == "401"
InternalServerError == "500"

\* The errors of addMiddleware: new TypeError(...), new Error(...)
TypeError == "TypeError"
StateError == "Error"

\* ------------------------------------------------------------- outcomes
\* The outcome of calling a function: it returns a plain value, throws,
\* or returns a promise that resolves or rejects.
Return(v) == [mode |-> "return", val |-> v]
Throw(e) == [mode |-> "throw", val |-> e]
Resolve(v) == [mode |-> "resolve", val |-> v]
Reject(e) == [mode |-> "reject", val |-> e]
NoOutcome == [mode |-> "none", val |-> ""]

\* A call made inside an async function body: `return f(...)`.  A thrown
\* exception rejects the promise of the async function, a returned value
\* or promise settles it.
AsyncReturn(o) ==
    CASE o.mode = "return" -> Resolve(o.val)
      [] o.mode = "throw" -> Reject(o.val)
      [] OTHER -> o

\* ensureAsync(fn)(...args): async (...args) => Promise.resolve(fn(...args))
ensureAsync(o) == AsyncReturn(o)

\* Variant of next whose promise is never settled.
next_NeverSettles(o) == NoOutcome

\* const next = async () => ensureAsync(handler)(event, context)
next(o) == AsyncReturn(ensureAsync(o))

\* createMiddleware(middleware, handler): the link is represented by the
\* sequence of its stages, outermost first, ending with the terminal handler.
createMiddleware(middleware, handler) == <<middleware>> \o handler

\* middlewareChain.reduce((wrapped, mw) => createMiddleware(mw, wrapped), h)
RECURSIVE reduce(_, _)
reduce(chain, wrappedHandler) ==
    IF chain = <<>> THEN wrappedHandler
    ELSE reduce(Tail(chain), createMiddleware(Head(chain), wrappedHandler))

\* ---------------------------------------------------------------- state
VARIABLES
    staticCompose,     \* options.staticCompose (undefined counts as false)
    handler,           \* the terminal handler given to createHandler
    middlewareChain,   \* const middlewareChain = []
    composedHandler,   \* let composedHandler = null  (<<>> models null)
    invs,              \* the invocations of finalHandler, by id
    active,            \* invocation holding the thread, 0 when idle
    caller,            \* the call that the caller of the builder made in
                       \* the last step: use (with a function or not, its
                       \* result and the value it returned) or invoke; none
                       \* after any other step
    builder,           \* the object createHandler returned: the function
                       \* it is and the function its property use holds
    compositions       \* number of times finalHandler ran the reduce of
                       \* lines 92-96 (each run makes a new chain)

vars == <<staticCompose, handler, middlewareChain, composedHandler, invs,
          active, caller, builder, compositions>>

null == <<>>

\* The function objects that createHandler creates, and the absence of a
\* returned value (the call threw)
FinalHandler == "finalHandler"
AddMiddleware == "addMiddleware"
Nothing == "nothing"

\* An invocation: its state, the chain it runs (links), its stack of
\* suspended stages and its promise (out); and, as history, the list that
\* was registered when it started, the stages in the order they started
\* (trace), the stages in the order they called next() (nexts), the last
\* outcome of the function at each depth (ret), the lines written with
\* console.error (logs), the call counter of the terminal handler and the
\* middlewares in the order they continued after an `await next()`
\* (resumes), and the (event, context) each started stage was called with
\* (received, parallel to trace).
IdleInv == [st |-> "idle", links |-> <<>>, registered |-> <<>>,
            stack |-> <<>>, out |-> NoOutcome, trace |-> <<>>,
            nexts |-> <<>>, ret |-> <<>>, logs |-> <<>>, hcalls |-> 0,
            resumes |-> <<>>, received |-> <<>>]

\* The objects the caller passes to invocation i of the built handler, and
\* the objects the middlewares pass to next()
Arguments(i) == [event |-> "event" \o ToString(i),
                 context |-> "context" \o ToString(i)]
NextArguments == [event |-> "otherEvent", context |-> "otherContext"]

\* The stage at depth d, called with args = (event, context)
Frame(d, args) == [d |-> d, pc |-> "start", got |-> NoOutcome, r1 |-> "",
                   args |-> args]

NoCall == [call |-> "none", fn |-> FALSE, result |-> "", returned |-> Nothing]

Init ==
    /\ staticCompose \in BOOLEAN
    /\ handler \in {TerminalHandler(k) : k \in HandlerKinds}
    /\ middlewareChain = <<>>
    /\ composedHandler = null
    /\ invs = [i \in InvIds |-> IdleInv]
    /\ active = 0
    /\ caller = NoCall
    /\ builder = [callable |-> FinalHandler, use |-> AddMiddleware]
    /\ compositions = 0

\* ------------------------------------------------------ addMiddleware
\* Variant of addMiddleware without the check of lines 111-114.
addMiddleware_NeverFrozen(arg) ==
    /\ active = 0
    /\ IF ~IsFunction(arg)
       THEN /\ caller' = [call |-> "use", fn |-> IsFunction(arg), result |-> "TypeError",
                        returned |-> Nothing]
            /\ UNCHANGED middlewareChain
       ELSE /\ middlewareChain' = Append(middlewareChain, arg)
            /\ caller' = [call |-> "use", fn |-> IsFunction(arg), result |-> "ok",
                        returned |-> FinalHandler]
    /\ UNCHANGED <<staticCompose, handler, composedHandler, invs, active,
                   builder, compositions>>

\* Variant of addMiddleware that makes the check of lines 111-114 before
\* the check of lines 108-109.
addMiddleware_StateCheckFirst(arg) ==
    /\ active = 0
    /\ IF staticCompose /\ composedHandler # null
       THEN /\ caller' = [call |-> "use", fn |-> IsFunction(arg), result |-> "Error",
                        returned |-> Nothing]
            /\ UNCHANGED middlewareChain
       ELSE IF ~IsFunction(arg)
       THEN /\ caller' = [call |-> "use", fn |-> IsFunction(arg), result |-> "TypeError",
                        returned |-> Nothing]
            /\ UNCHANGED middlewareChain
       ELSE /\ middlewareChain' = Append(middlewareChain, arg)
            /\ caller' = [call |-> "use", fn |-> IsFunction(arg), result |-> "ok",
                        returned |-> FinalHandler]
    /\ UNCHANGED <<staticCompose, handler, composedHandler, invs, active,
                   builder, compositions>>

\* Variant of addMiddleware whose last line is `return addMiddleware`.
addMiddleware_ReturnsMethod(arg) ==
    /\ active = 0
    /\ IF ~IsFunction(arg)
       THEN /\ caller' = [call |-> "use", fn |-> IsFunction(arg), result |-> "TypeError",
                        returned |-> Nothing]
            /\ UNCHANGED middlewareChain
       ELSE IF staticCompose /\ composedHandler # null
       THEN /\ caller' = [call |-> "use", fn |-> IsFunction(arg), result |-> "Error",
                        returned |-> Nothing]
            /\ UNCHANGED middlewareChain
       ELSE /\ middlewareChain' = Append(middlewareChain, arg)
            /\ caller' = [call |-> "use", fn |-> IsFunction(arg), result |-> "ok",
                        returned |-> AddMiddleware]
    /\ UNCHANGED <<staticCompose, handler, composedHandler, invs, active,
                   builder, compositions>>

\* Variant of addMiddleware whose check of lines 111-114 asks whether an
\* invocation has completed.
addMiddlewareThrows_WhenCompleted(arg) ==
    IF ~IsFunction(arg) THEN TypeError
    ELSE IF staticCompose
            /\ \E i \in InvIds : invs[i].st \in {"resolved", "rejected"}
    THEN StateError
    ELSE "ok"

\* What a call of addMiddleware throws ("ok": nothing, it reaches the push)
addMiddlewareThrows(arg) ==
    IF ~IsFunction(arg) THEN TypeError
    ELSE IF staticCompose /\ composedHandler # null THEN StateError
    ELSE "ok"

\* finalHandler.use = addMiddleware
addMiddleware(arg) ==
    LET thrown == addMiddlewareThrows(arg)
    IN  /\ active = 0
        /\ caller' = [call |-> "use", fn |-> IsFunction(arg),
                      result |-> thrown,
                      returned |-> IF thrown = "ok" THEN FinalHandler
                                   ELSE Nothing]
        /\ middlewareChain' = IF thrown = "ok"
                              THEN Append(middlewareChain, arg)
                              ELSE middlewareChain
        /\ UNCHANGED <<staticCompose, handler, composedHandler, invs, active,
                       builder, compositions>>

\* The caller registers a new function of one of the given kinds, or passes
\* something that is not a function.
UseFrom(kinds) ==
    \E arg \in {Mw(Len(middlewareChain) + 1, k) : k \in kinds}
               \cup NonFunctions :
        /\ builder.use = AddMiddleware
        /\ addMiddleware(arg)
        /\ Len(middlewareChain') <= MaxMw

Use == UseFrom(OnceKinds)
UseAny == UseFrom(MwKinds)

\* ------------------------------------------------------- createMiddleware
\* The body of the link around a middleware whose call had outcome o:
\*   try { return await ensureAsync(middleware)(event, context, next) }
\*   catch (error) { console.error(...); throw error }
\* out is the outcome of the link (an async function), log the lines it
\* wrote with console.error.
\* Variant of the link whose catch block does not re-throw.
link_Swallows(middleware, o) ==
    LET awaited == ensureAsync(o)
    IN  IF awaited.mode \in {"reject", "throw"}
        THEN [out |-> AsyncReturn(Return("undefined")),
              log |-> <<[src |-> "core", by |-> middleware.id,
                         error |-> awaited.val]>>]
        ELSE [out |-> AsyncReturn(Return(awaited.val)), log |-> <<>>]

\* Variant of the link that awaits the middleware without `return`.
link_NoReturn(middleware, o) ==
    LET awaited == ensureAsync(o)
    IN  IF awaited.mode \in {"reject", "throw"}
        THEN [out |-> AsyncReturn(Throw(awaited.val)),
              log |-> <<[src |-> "core", by |-> middleware.id,
                         error |-> awaited.val]>>]
        ELSE [out |-> AsyncReturn(Return("undefined")), log |-> <<>>]

\* Variant of the link that writes its log line in a finally block.
link_LogsAlways(middleware, o) ==
    LET awaited == ensureAsync(o)
    IN  IF awaited.mode \in {"reject", "throw"}
        THEN [out |-> AsyncReturn(Throw(awaited.val)),
              log |-> <<[src |-> "core", by |-> middleware.id,
                         error |-> awaited.val]>>]
        ELSE [out |-> AsyncReturn(Return(awaited.val)),
              log |-> <<[src |-> "core", by |-> middleware.id,
                         error |-> "undefined"]>>]

\* Variant of the link that logs both in its catch block and in a handler
\* of the rejection.
link_LogsTwice(middleware, o) ==
    LET awaited == ensureAsync(o)
    IN  IF awaited.mode \in {"reject", "throw"}
        THEN [out |-> AsyncReturn(Throw(awaited.val)),
              log |-> <<[src |-> "core", by |-> middleware.id,
                         error |-> awaited.val],
                        [src |-> "core", by |-> middleware.id,
                         error |-> awaited.val]>>]
        ELSE [out |-> AsyncReturn(Return(awaited.val)), log |-> <<>>]

\* Variant of the link whose catch block only re-throws.
link_Silent(middleware, o) ==
    LET awaited == ensureAsync(o)
    IN  IF awaited.mode \in {"reject", "throw"}
        THEN [out |-> AsyncReturn(Throw(awaited.val)), log |-> <<>>]
        ELSE [out |-> AsyncReturn(Return(awaited.val)), log |-> <<>>]

link(middleware, o) ==
    LET awaited == ensureAsync(o)
    IN  IF awaited.mode \in {"reject", "throw"}
        THEN [out |-> AsyncReturn(Throw(awaited.val)),
              log |-> <<[src |-> "core", by |-> middleware.id,
                         error |-> awaited.val]>>]
        ELSE [out |-> AsyncReturn(Return(awaited.val)), log |-> <<>>]

\* Variant: finalHandler declared without `async`.
finalHandlerReturn_NotAsync(o) == o

\* return composedHandler(event, context), in the async finalHandler
finalHandlerReturn(o) == AsyncReturn(o)

Top(inv) == inv.stack[Len(inv.stack)]
Pop(stack) == SubSeq(stack, 1, Len(stack) - 1)
SetTop(stack, f) == [stack EXCEPT ![Len(stack)] = f]
\* Variant in which a running invocation looks its stages up in the chain
\* that the variable composedHandler holds now.
StageOf_Shared(inv, f) ==
    IF f.d <= Len(composedHandler) THEN composedHandler[f.d]
    ELSE inv.links[f.d]

\* The stage a frame executes: the chain of the invocation is the closure
\* that composedHandler held when finalHandler called it (line 99).
StageOf(inv, f) == inv.links[f.d]
IsLink(inv, f) == f.d < Len(inv.links)

\* The stage on top of the stack of inv finishes with outcome o (of the
\* middleware or terminal handler function itself).  A middleware finishes
\* inside its link; the link or terminal handler was called either by
\* finalHandler (depth 1) or by the next() of the stage outward of it.
Settled(inv, o, extraLog) ==
    LET f == Top(inv)
        l == link(StageOf(inv, f), o)
        stageOut == IF IsLink(inv, f) THEN l.out ELSE o
        logs == inv.logs \o extraLog \o (IF IsLink(inv, f) THEN l.log ELSE <<>>)
    IN  IF f.d = 1
        THEN LET res == finalHandlerReturn(stageOut)
             IN  [inv EXCEPT !.stack = <<>>, !.logs = logs, !.out = res,
                             !.ret = [inv.ret EXCEPT ![f.d] = o],
                             !.st = CASE res.mode = "resolve" -> "resolved"
                                      [] res.mode = "reject" -> "rejected"
                                      [] res.mode = "throw" -> "threw"
                                      [] OTHER -> "returned"]
        ELSE LET rest == Pop(inv.stack)
                 parent == Top([inv EXCEPT !.stack = rest])
             IN  [inv EXCEPT !.logs = logs,
                             !.ret = [inv.ret EXCEPT ![f.d] = o],
                             !.stack = SetTop(rest,
                                 [parent EXCEPT !.got = next(stageOut)])]

\* Variant of next() that keeps the promise of its first call: the second
\* call of a stage gets that promise and the inner stage does not start.
CallsNext_Memoized(inv, pc) ==
    LET f == Top(inv)
    IN  IF pc = "await1"
        THEN [inv EXCEPT !.nexts = Append(inv.nexts, StageOf(inv, f).id),
                         !.stack = Append(SetTop(inv.stack,
                              [f EXCEPT !.pc = pc, !.got = NoOutcome]),
                              Frame(f.d + 1, f.args))]
        ELSE [inv EXCEPT !.nexts = Append(inv.nexts, StageOf(inv, f).id),
                         !.stack = SetTop(inv.stack,
                              [f EXCEPT !.pc = pc, !.got = Resolve(f.r1)])]

\* Variant of next() without `return`: its promise resolves at once.
CallsNext_NoWait(inv, pc) ==
    LET f == Top(inv)
    IN  [inv EXCEPT !.nexts = Append(inv.nexts, StageOf(inv, f).id),
                    !.stack = Append(SetTop(inv.stack,
                         [f EXCEPT !.pc = pc, !.got = Resolve("undefined")]),
                         Frame(f.d + 1, f.args))]

\* Variant of next() that hands its own arguments to the inner stage:
\* async (...args) => ensureAsync(handler)(...args).
CallsNext_ForwardsArguments(inv, pc) ==
    LET f == Top(inv)
    IN  [inv EXCEPT !.nexts = Append(inv.nexts, StageOf(inv, f).id),
                    !.stack = Append(SetTop(inv.stack,
                         [f EXCEPT !.pc = pc, !.got = NoOutcome]),
                         Frame(f.d + 1, NextArguments))]

\* The stage on top of the stack calls next(): the stage inward of it
\* starts synchronously, called with the (event, context) of the link that
\* made this next, whatever arguments next is called with.
CallsNext(inv, pc) ==
    LET f == Top(inv)
    IN  [inv EXCEPT !.nexts = Append(inv.nexts, StageOf(inv, f).id),
                    !.stack = Append(SetTop(inv.stack,
                         [f EXCEPT !.pc = pc, !.got = NoOutcome]),
                         Frame(f.d + 1, f.args))]

\* ------------------------------------------------------------ finalHandler
\* Variant of finalHandler whose condition of line 91 is `!composedHandler`.
finalHandler_ComposeOnce(i) ==
    /\ active = 0
    /\ invs[i].st = "idle"
    /\ \A j \in InvIds : j < i => invs[j].st # "idle"
    /\ IF composedHandler = null
       THEN /\ composedHandler' = reduce(middlewareChain, <<handler>>)
            /\ compositions' = compositions + 1
       ELSE UNCHANGED <<composedHandler, compositions>>
    /\ invs' = [invs EXCEPT ![i] =
                  [IdleInv EXCEPT !.st = "running",
                                  !.links = composedHandler',
                                  !.registered = middlewareChain,
                                  !.ret = [d \in 1..Len(composedHandler')
                                              |-> NoOutcome],
                                  !.stack = <<Frame(1, Arguments(i))>>]]
    /\ active' = i
    /\ caller' = [call |-> "invoke", fn |-> FALSE, result |-> "",
                  returned |-> Nothing]
    /\ UNCHANGED <<staticCompose, handler, middlewareChain, builder>>

\* Variant of finalHandler without the condition of line 91.
finalHandler_AlwaysCompose(i) ==
    /\ active = 0
    /\ invs[i].st = "idle"
    /\ \A j \in InvIds : j < i => invs[j].st # "idle"
    /\ IF TRUE
       THEN /\ composedHandler' = reduce(middlewareChain, <<handler>>)
            /\ compositions' = compositions + 1
       ELSE UNCHANGED <<composedHandler, compositions>>
    /\ invs' = [invs EXCEPT ![i] =
                  [IdleInv EXCEPT !.st = "running",
                                  !.links = composedHandler',
                                  !.registered = middlewareChain,
                                  !.ret = [d \in 1..Len(composedHandler')
                                              |-> NoOutcome],
                                  !.stack = <<Frame(1, Arguments(i))>>]]
    /\ active' = i
    /\ caller' = [call |-> "invoke", fn |-> FALSE, result |-> "",
                  returned |-> Nothing]
    /\ UNCHANGED <<staticCompose, handler, middlewareChain, builder>>

\* The caller invokes the built handler: the chain is composed when there
\* is none yet or on every invocation in dynamic mode, then entered.
finalHandler(i) ==
    /\ active = 0
    /\ invs[i].st = "idle"
    /\ \A j \in InvIds : j < i => invs[j].st # "idle"
    /\ IF composedHandler = null \/ ~staticCompose
       THEN /\ composedHandler' = reduce(middlewareChain, <<handler>>)
            /\ compositions' = compositions + 1
       ELSE UNCHANGED <<composedHandler, compositions>>
    /\ invs' = [invs EXCEPT ![i] =
                  [IdleInv EXCEPT !.st = "running",
                                  !.links = composedHandler',
                                  !.registered = middlewareChain,
                                  !.ret = [d \in 1..Len(composedHandler')
                                              |-> NoOutcome],
                                  !.stack = <<Frame(1, Arguments(i))>>]]
    /\ active' = i
    /\ caller' = [call |-> "invoke", fn |-> FALSE, result |-> "",
                  returned |-> Nothing]
    /\ UNCHANGED <<staticCompose, handler, middlewareChain, builder>>

Invoke == \E i \in InvIds : finalHandler(i)

\* --------------------------------------------------- the stages' bodies
\* Outcome of one execution of the terminal handler, n its call counter.
HandlerBody(kind, n) ==
    CASE kind = "async" -> Resolve("ok")
      [] kind = "count" -> Return("ok" \o ToString(n))
      [] kind = "throw" -> Throw(HandlerError)
      [] kind = "reject" -> Reject(HandlerError)

\* A stage starts: the terminal handler runs to its end, a middleware runs
\* up to its first next() call or to its end.
EnterStage(i) ==
    LET inv == invs[i]
        f == Top(inv)
        s == StageOf(inv, f)
        started == [inv EXCEPT !.trace = Append(inv.trace, s.id),
                               !.received = Append(inv.received, f.args)]
        extra == Mw(Len(middlewareChain) + 1, "append")
        \* the use middleware makes its call while the list explored has
        \* room for the function, and in static mode (where it is refused)
        calls == s.id # 0 /\ s.kind = "use"
                   /\ (Len(middlewareChain) < MaxMw
                         \/ addMiddlewareThrows(extra) # "ok")
        thrown == IF calls THEN addMiddlewareThrows(extra) ELSE "ok"
    IN  /\ active = i
        /\ f.pc = "start"
        /\ IF s.kind = "hang"
           THEN /\ invs' = [invs EXCEPT ![i] =
                       [started EXCEPT
                           !.hcalls = IF s.id = 0 THEN @ + 1 ELSE @,
                           !.stack = SetTop(inv.stack, [f EXCEPT !.pc = "hung"])]]
                /\ active' = 0
           ELSE IF s.id = 0
           THEN LET ran == [started EXCEPT !.hcalls = inv.hcalls + 1]
                IN  /\ invs' = [invs EXCEPT ![i] =
                           Settled(ran, HandlerBody(s.kind, ran.hcalls), <<>>)]
                    /\ active' = 0
           ELSE IF s.kind = "short"
           THEN /\ invs' = [invs EXCEPT ![i] =
                       Settled(started, Return(Unauthorized), <<>>)]
                /\ active' = 0
           ELSE IF s.kind = "throw"
           THEN /\ invs' = [invs EXCEPT ![i] =
                       Settled(started, Throw(MwError(s.id)), <<>>)]
                /\ active' = 0
           ELSE IF s.kind = "reject"
           THEN /\ invs' = [invs EXCEPT ![i] =
                       Settled(started, Reject(MwError(s.id)), <<>>)]
                /\ active' = 0
           ELSE IF thrown # "ok"
           THEN \* the error of builder.use() leaves the use middleware
                /\ invs' = [invs EXCEPT ![i] =
                       Settled(started, Throw(thrown), <<>>)]
                /\ active' = 0
           ELSE /\ invs' = [invs EXCEPT ![i] = CallsNext(started, "await1")]
                /\ active' = i
        /\ middlewareChain' = IF calls /\ thrown = "ok"
                              THEN Append(middlewareChain, extra)
                              ELSE middlewareChain
        /\ caller' = NoCall
        /\ UNCHANGED <<staticCompose, handler, composedHandler, builder,
                       compositions>>

Enter == \E i \in InvIds : invs[i].st = "running" /\ EnterStage(i)

\* A middleware suspended in `await next()` continues with the outcome of
\* that call.
ResumeStage(i) ==
    LET inv == [invs[i] EXCEPT
                   !.resumes = Append(@, StageOf(invs[i], Top(invs[i])).id)]
        f == Top(inv)
        s == StageOf(inv, f)
        g == f.got
    IN  /\ active = 0
        /\ f.pc # "start"
        /\ g # NoOutcome
        /\ IF g.mode = "reject" /\ s.kind = "catch"
           THEN \* errorMiddleware: console.error, return internalServerError
                /\ invs' = [invs EXCEPT ![i] =
                       Settled(inv, Resolve(InternalServerError),
                               <<[src |-> "ErrorMiddleware", by |-> s.id,
                                  error |-> g.val]>>)]
                /\ active' = 0
           ELSE IF g.mode = "reject"
           THEN \* the rejection of next() escapes the async middleware
                /\ invs' = [invs EXCEPT ![i] = Settled(inv, Reject(g.val), <<>>)]
                /\ active' = 0
           ELSE IF s.kind = "twice" /\ f.pc = "await1"
           THEN /\ invs' = [invs EXCEPT ![i] =
                       CallsNext([inv EXCEPT !.stack =
                           SetTop(inv.stack, [f EXCEPT !.r1 = g.val])], "await2")]
                /\ active' = i
           ELSE IF s.kind = "twice"
           THEN /\ invs' = [invs EXCEPT ![i] =
                       Settled(inv, Resolve(f.r1 \o "+" \o g.val), <<>>)]
                /\ active' = 0
           ELSE IF s.kind = "append"
           THEN /\ invs' = [invs EXCEPT ![i] =
                       Settled(inv, Resolve(g.val \o Suffix(s.id)), <<>>)]
                /\ active' = 0
           ELSE /\ invs' = [invs EXCEPT ![i] = Settled(inv, Resolve(g.val), <<>>)]
                /\ active' = 0
        /\ caller' = NoCall
        /\ UNCHANGED <<staticCompose, handler, middlewareChain,
                       composedHandler, builder, compositions>>

Resume == \E i \in InvIds : invs[i].st = "running" /\ ResumeStage(i)

\* The builder under middlewares that call next() at most once.
Next == Use \/ Invoke \/ Enter \/ Resume

Spec == Init /\ [][Next]_vars

\* The builder under all the middlewares, those that call next() twice
\* included.
NextRepeat == UseAny \/ Invoke \/ Enter \/ Resume

SpecRepeat == Init /\ [][NextRepeat]_vars

\* The builder under middlewares that use it themselves or never settle,
\* with terminal handlers that may never settle.  The event loop runs a
\* continuation whenever one is ready: the synchronous continuation of a
\* call that was made (Enter) and the continuation of an await whose
\* promise has settled (Resume).
InitLive ==
    /\ staticCompose \in BOOLEAN
    /\ handler \in {TerminalHandler(k) : k \in LiveHandlerKinds}
    /\ middlewareChain = <<>>
    /\ composedHandler = null
    /\ invs = [i \in InvIds |-> IdleInv]
    /\ active = 0
    /\ caller = NoCall
    /\ builder = [callable |-> FinalHandler, use |-> AddMiddleware]
    /\ compositions = 0

UseLive == UseFrom(LiveKinds)

NextLive == UseLive \/ Invoke \/ Enter \/ Resume

SpecLive ==
    /\ InitLive
    /\ [][NextLive]_vars
    /\ WF_vars(Enter)
    /\ WF_vars(Resume)

\* ------------------------------------------------------------ properties
Finished(i) == invs[i].st \in {"resolved", "rejected", "threw", "returned"}
Ids(stages) == [k \in 1..Len(stages) |-> stages[k].id]
Runs(inv, id) == Cardinality({k \in 1..Len(inv.trace) : inv.trace[k] = id})
Ran(inv, id) == \E k \in 1..Len(inv.trace) : inv.trace[k] = id

\* The middlewares that call next() exactly once per execution
CallsNextOnce == {"append", "catch"}

\* C1: when every registered middleware calls next(), an invocation starts
\* the middlewares in registration order (first registered first) and the
\* terminal handler after all of them.
C1_RegistrationOrder ==
    \A i \in InvIds :
        LET inv == invs[i]
        IN  (/\ Finished(i)
             /\ \A k \in 1..Len(inv.registered) :
                    inv.registered[k].kind \in CallsNextOnce)
            => inv.trace = Ids(inv.registered) \o <<0>>

\* C2: when the middleware registered at position k returns without calling
\* next(), no middleware registered at a position greater than k and not the
\* terminal handler runs in that invocation, and the invocation resolves
\* with exactly the value that middleware returned.
C2_ShortCircuit ==
    \A i \in InvIds :
        LET inv == invs[i]
        IN  Finished(i) =>
            \A k \in 1..Len(inv.registered) :
                (inv.registered[k].kind = "short" /\ Ran(inv, inv.registered[k].id))
                => /\ \A j \in 1..Len(inv.registered) :
                          j > k => ~Ran(inv, inv.registered[j].id)
                   /\ ~Ran(inv, 0)
                   /\ inv.out = Resolve(Unauthorized)

\* A step in which the caller makes a .use() call
CallerUses == caller'.call = "use"

\* The step appends one function to the middleware list.
Appends ==
    \E k \in MwKinds :
        middlewareChain' =
            Append(middlewareChain, Mw(Len(middlewareChain) + 1, k))
Invoked == invs[1].st # "idle"

\* C3: in static mode every .use() call made after the first invocation
\* fails with the state error, however many invocations were made, and
\* leaves the middleware list unchanged; every .use() call made before the
\* first invocation succeeds and appends its argument.  The calls are those
\* of the declared signature of use (a function argument); calls with an
\* argument that is not a function are the case of C5.
C3_StaticFreeze ==
    [][(staticCompose /\ CallerUses /\ caller'.fn) =>
         IF Invoked
         THEN caller'.result = "Error" /\ middlewareChain' = middlewareChain
         ELSE /\ caller'.result = "ok"
              /\ Appends]_vars

\* A function was refused after the second invocation of a static builder.
C3_Witness ==
    /\ staticCompose
    /\ invs[2].st # "idle"
    /\ caller.call = "use" /\ caller.fn
    /\ caller.result = "Error"
    /\ middlewareChain = invs[1].registered

Middlewares(links) == {links[d] : d \in 1..(Len(links) - 1)}
Elements(chain) == {chain[k] : k \in 1..Len(chain)}

\* C4: in dynamic mode .use() with a function argument succeeds after any
\* number of invocations; the middleware it adds is a stage of every
\* invocation started afterwards, and no invocation started before the call
\* has it as a stage or runs it.
C4_DynamicUse ==
    /\ [][(~staticCompose /\ CallerUses /\ caller'.fn) =>
            /\ caller'.result = "ok"
            /\ Appends
            /\ invs' = invs]_vars
    /\ [](~staticCompose =>
            \A i \in InvIds : invs[i].st # "idle" =>
               /\ Middlewares(invs[i].links) = Elements(invs[i].registered)
               /\ \A k \in 1..Len(invs[i].trace) :
                      invs[i].trace[k] <= Len(invs[i].registered))

\* Invocation 2, started after a .use() call made while invocation 1 was
\* suspended, ran the added middleware and finished; invocation 1, still in
\* flight, has only the middleware registered before it started.
C4_Witness ==
    /\ ~staticCompose
    /\ invs[1].st = "running" /\ invs[1].trace # <<>>
    /\ Finished(2)
    /\ Len(invs[1].registered) = 1
    /\ Len(invs[2].registered) = 2
    /\ Ran(invs[2], 2)
    /\ ~Ran(invs[1], 2)

\* C5: .use() with an argument that is not a function fails with the type
\* error in every state of the builder, changes neither the middleware list
\* nor the composed chain, and runs no middleware and not the handler.
C5_NonFunction ==
    [][(CallerUses /\ ~caller'.fn) =>
         /\ caller'.result = "TypeError"
         /\ UNCHANGED <<middlewareChain, composedHandler, invs, active>>]_vars

\* A non-function was refused by a static builder after its composition,
\* while an invocation was in flight.
C5_Witness ==
    /\ staticCompose
    /\ composedHandler # null
    /\ invs[1].st = "running"
    /\ caller.call = "use" /\ ~caller.fn
    /\ caller.result = "TypeError"

RaisedBy(stage) == IF stage.id = 0 THEN HandlerError ELSE MwError(stage.id)
Raises(stage) == stage.kind \in {"throw", "reject"}
Promise(o) == AsyncReturn(o)

\* The stage at depth d of a finished invocation raised an error that no
\* middleware outward of it catches.
RaisedUncaught(inv, d) ==
    /\ Raises(inv.links[d])
    /\ inv.ret[d] # NoOutcome
    /\ \A c \in 1..(d - 1) : inv.links[c].kind # "catch"

\* C6: an error raised by a middleware or by the terminal handler and
\* caught by no middleware rejects the invocation with the same error
\* value, through any number of links, zero included.
C6_ErrorReachesCaller ==
    \A i \in InvIds :
        Finished(i) =>
            \A d \in 1..Len(invs[i].links) :
                RaisedUncaught(invs[i], d)
                => /\ invs[i].st = "rejected"
                   /\ invs[i].out = Reject(RaisedBy(invs[i].links[d]))

\* The error of the terminal handler went out through two links.
C6_Witness ==
    /\ invs[1].st = "rejected"
    /\ Len(invs[1].links) = 3
    /\ RaisedUncaught(invs[1], 3)
    /\ invs[1].out = Reject(HandlerError)
    /\ Len(invs[1].logs) = 2

\* C7: a synchronous throw is observed as the rejection that an async
\* function rejecting with the same error gives: no caller of the chain, of
\* next() or of the built handler ever gets a synchronous exception or a
\* plain value, and a stage that throws e and one that rejects with e both
\* leave the invocation rejected with e, at every depth and without links.
C7_SyncThrowIsRejection ==
    \A i \in InvIds :
        /\ invs[i].st \notin {"threw", "returned"}
        /\ invs[i].out.mode \in {"none", "resolve", "reject"}
        /\ \A k \in 1..Len(invs[i].stack) :
               invs[i].stack[k].got.mode \in {"none", "resolve", "reject"}
        /\ Finished(i) =>
             \A d \in 1..Len(invs[i].links) :
                 \A raw \in {Throw(RaisedBy(invs[i].links[d])),
                             Reject(RaisedBy(invs[i].links[d]))} :
                     (invs[i].ret[d] = raw
                        /\ \A c \in 1..(d - 1) : invs[i].links[c].kind # "catch")
                     => invs[i].out = Reject(raw.val)

\* A terminal handler that throws synchronously, called without any link.
C7_Witness ==
    /\ Len(invs[1].links) = 1
    /\ invs[1].ret[1] = Throw(HandlerError)
    /\ invs[1].st = "rejected"
    /\ invs[1].out = Reject(HandlerError)

NextCalls(inv, id) == Cardinality({k \in 1..Len(inv.nexts) : inv.nexts[k] = id})
Starting(inv, d) ==
    Cardinality({k \in 1..Len(inv.stack) :
                    inv.stack[k].d = d /\ inv.stack[k].pc = "start"})

\* What the links d, d-1, .. stop make of the value v that the stage at
\* depth d + 1 returned, when each of them gets v from every next() call.
RECURSIVE Derived(_, _, _, _)
Derived(links, d, stop, v) ==
    IF d < stop THEN v
    ELSE Derived(links, d - 1, stop,
                 CASE links[d].kind = "append" -> v \o Suffix(links[d].id)
                   [] links[d].kind = "twice" -> v \o "+" \o v
                   [] OTHER -> v)

\* C8: every next() call starts the stage inward of the caller once more
\* (no memoization); so when a middleware calls next() twice in an
\* invocation and every stage inward of it calls next() once, each of these
\* stages and the terminal handler run exactly twice, and each of the two
\* calls yields the result of its own run.
C8_NextTwice ==
    \A i \in InvIds :
        LET inv == invs[i]
            n == Len(inv.links)
        IN  /\ \A d \in 1..(n - 1) :
                   Runs(inv, inv.links[d + 1].id) + Starting(inv, d + 1)
                       = NextCalls(inv, inv.links[d].id)
            /\ Finished(i) =>
                 \A t \in 1..(n - 1) :
                     (/\ inv.links[t].kind = "twice"
                      /\ Runs(inv, inv.links[t].id) = 1
                      /\ NextCalls(inv, inv.links[t].id) = 2
                      /\ \A d \in (t + 1)..(n - 1) :
                             inv.links[d].kind \in CallsNextOnce)
                     => /\ \A d \in (t + 1)..n : Runs(inv, inv.links[d].id) = 2
                        /\ inv.hcalls = 2
                        /\ inv.links[n].kind = "count" =>
                             inv.ret[t] = Resolve(
                                 Derived(inv.links, n - 1, t + 1, "ok1") \o "+"
                                 \o Derived(inv.links, n - 1, t + 1, "ok2"))

\* A middleware called next() twice around one more link and a counting
\* handler.
C8_Witness ==
    /\ Finished(1)
    /\ Len(invs[1].links) = 3
    /\ invs[1].links[1].kind = "twice"
    /\ invs[1].links[2].kind = "append"
    /\ invs[1].links[3].kind = "count"
    /\ invs[1].trace = <<2, 1, 0, 1, 0>>
    /\ invs[1].out = Resolve("ok1-mw+ok2-mw")

\* C9: the invocation settles as the outermost stage does and every next()
\* call settles as the stage inward of the caller does, with the value that
\* stage returned; a handler returning "ok" under one middleware appending
\* "-mw" gives "ok-mw", and without middleware the result is the handler's.
C9_ResultFlow ==
    \A i \in InvIds :
        LET inv == invs[i]
        IN  /\ Finished(i) => inv.out = Promise(inv.ret[1])
            /\ \A k \in 1..Len(inv.stack) :
                   inv.stack[k].got # NoOutcome
                   => inv.stack[k].got = Promise(inv.ret[inv.stack[k].d + 1])
            /\ (Finished(i) /\ inv.registered = <<Mw(1, "append")>>
                  /\ handler.kind = "async")
               => inv.out = Resolve("ok-mw")
            /\ (Finished(i) /\ inv.registered = <<>>)
               => inv.out = Promise(HandlerBody(handler.kind, 1))

\* The handler returned "ok" and the single middleware appended "-mw".
C9_Witness ==
    /\ invs[1].st = "resolved"
    /\ invs[1].registered = <<Mw(1, "append")>>
    /\ invs[1].ret[2] = Resolve("ok")
    /\ invs[1].out = Resolve("ok-mw")

Caught(inv, d) ==
    \E k \in 1..Len(inv.logs) :
        inv.logs[k].src = "ErrorMiddleware" /\ inv.logs[k].by = inv.links[d].id

\* C10: when a middleware catches the rejection of its next() call and
\* returns a value, every link outward of it gets a normal result, none of
\* them logs or re-throws, and the invocation resolves with the value the
\* outward links derive from the returned one.
C10_CaughtErrorStops ==
    \A i \in InvIds :
        LET inv == invs[i]
        IN  Finished(i) =>
            \A d \in 1..(Len(inv.links) - 1) :
                (inv.links[d].kind = "catch" /\ Caught(inv, d))
                => /\ inv.st = "resolved"
                   /\ \A c \in 1..d : inv.ret[c].mode \in {"return", "resolve"}
                   /\ \A k \in 1..Len(inv.logs) : \A c \in 1..(d - 1) :
                          ~(inv.logs[k].src = "core"
                              /\ inv.logs[k].by = inv.links[c].id)
                   /\ inv.out = Resolve(
                          Derived(inv.links, d - 1, 1, InternalServerError))

\* The inner middleware caught the handler's error under an outer link.
C10_Witness ==
    /\ invs[1].st = "resolved"
    /\ Len(invs[1].links) = 3
    /\ invs[1].links[2].kind = "catch"
    /\ invs[1].links[1].kind = "append"
    /\ Caught(invs[1], 2)
    /\ invs[1].ret[3].mode \in {"throw", "reject"}
    /\ invs[1].out = Resolve("500-mw2")

\* C11: every successful .use() call returns the function the builder is,
\* a failed one returns nothing; the function the builder is and the
\* function its property use holds are those createHandler set, in every
\* state; and no step changes the mode or the terminal handler: of the
\* state of the builder only the middleware list and the composed chain
\* change.
C11_SameBuilder ==
    /\ [][(CallerUses /\ caller'.result = "ok")
            => caller'.returned = builder.callable]_vars
    /\ [][(CallerUses /\ caller'.result # "ok")
            => caller'.returned = Nothing]_vars
    /\ [](builder = [callable |-> FinalHandler, use |-> AddMiddleware])
    /\ [][UNCHANGED <<builder, staticCompose, handler>>]_vars

\* The second .use() call of a chain builder.use(a).use(b), made after an
\* invocation, returned the builder.
C11_Witness ==
    /\ caller.call = "use" /\ caller.result = "ok"
    /\ caller.returned = builder.callable
    /\ Len(middlewareChain) = 2
    /\ Finished(1)
    /\ composedHandler # null

\* The lines the links of the core wrote, and the stages that raised
CoreLines(inv) ==
    Cardinality({k \in 1..Len(inv.logs) : inv.logs[k].src = "core"})
Raised(inv) ==
    {d \in 1..Len(inv.links) : Raises(inv.links[d]) /\ inv.ret[d] # NoOutcome}
Max(S) == CHOOSE m \in S : \A x \in S : x <= m
Min(a, b) == IF a < b THEN a ELSE b

\* The links an error raised at depth d leaves through: those of the
\* middlewares from depth d (the innermost link when d is the terminal
\* handler) outward to the nearest middleware that catches it.
LinksLeft(inv, d) ==
    Min(d, Len(inv.links) - 1)
      - Max({0} \cup {c \in 1..(d - 1) : inv.links[c].kind = "catch"})

\* C12 as stated: a finished invocation has one line of the core for each
\* exception raised in it, whatever the number of middlewares.
C12_OneLinePerException ==
    \A i \in InvIds :
        Finished(i) => CoreLines(invs[i]) = Cardinality(Raised(invs[i]))

\* C12 amended: the core writes one line for each link an exception leaves
\* through, so an exception raised at depth d gives as many lines as there
\* are links from d outward to the nearest catching middleware (none
\* without middlewares), and an invocation without exception gives none.
C12_OneLinePerLink ==
    \A i \in InvIds :
        Finished(i) =>
            /\ \A d \in Raised(invs[i]) :
                   CoreLines(invs[i]) = LinksLeft(invs[i], d)
            /\ Raised(invs[i]) = {} => CoreLines(invs[i]) = 0

\* The error of the inner of two middlewares gave two lines.
C12_Witness ==
    /\ invs[1].st = "rejected"
    /\ Len(invs[1].links) = 3
    /\ Raised(invs[1]) = {2}
    /\ CoreLines(invs[1]) = 2

\* The lines the link of the middleware id wrote with the error e
LinesBy(inv, id, e) ==
    Cardinality({k \in 1..Len(inv.logs) :
                    inv.logs[k] = [src |-> "core", by |-> id, error |-> e]})
LinesOf(inv, id) ==
    Cardinality({k \in 1..Len(inv.logs) :
                    inv.logs[k].src = "core" /\ inv.logs[k].by = id})
Failed(o) == o.mode \in {"throw", "reject"}

\* C13: when each middleware runs at most once in an invocation, the link
\* of a middleware that ended with an error (thrown, or the rejection of
\* next() it let escape) has written exactly one line, with that error, and
\* rejects with it towards its caller (the next() of the stage outward of
\* it, or the invocation); the link of a middleware that returned normally
\* or has not ended has written nothing; so an error of the terminal
\* handler caught by no middleware is logged once by each of the N links.
C13_EachLinkLogsOnce ==
    \A i \in InvIds :
        LET inv == invs[i]
            n == Len(inv.links)
        IN  /\ \A d \in 1..(n - 1) :
                   IF Failed(inv.ret[d])
                   THEN /\ LinesOf(inv, inv.links[d].id) = 1
                        /\ LinesBy(inv, inv.links[d].id, inv.ret[d].val) = 1
                        /\ (d = 1 /\ Finished(i))
                             => inv.out = Reject(inv.ret[d].val)
                        /\ \A k \in 1..Len(inv.stack) :
                               (inv.stack[k].d = d - 1
                                  /\ inv.stack[k].got # NoOutcome)
                               => inv.stack[k].got = Reject(inv.ret[d].val)
                   ELSE LinesOf(inv, inv.links[d].id) = 0
            /\ (Finished(i) /\ RaisedUncaught(inv, n))
               => /\ \A d \in 1..(n - 1) :
                         LinesBy(inv, inv.links[d].id, HandlerError) = 1
                  /\ Len(inv.logs) = n - 1

\* The rejection of the terminal handler escaped two middlewares that
\* awaited next(): each of the two links wrote its line.
C13_Witness ==
    /\ invs[1].st = "rejected"
    /\ invs[1].registered = <<Mw(1, "append"), Mw(2, "append")>>
    /\ invs[1].ret[3] = Reject(HandlerError)
    /\ LinesBy(invs[1], 1, HandlerError) = 1
    /\ LinesBy(invs[1], 2, HandlerError) = 1

\* C14: in static mode the chain is composed once, by the first
\* invocation: there is a composed chain exactly when an invocation was
\* made, no step changes the composed chain or the middleware list once
\* there is one, and every invocation, overlapping ones included, has the
\* chain of the first one, made of the list registered when the first one
\* was made, and starts the stages of that chain in its order when each
\* middleware calls next() once.
C14_StaticComposedOnce ==
    /\ [](staticCompose =>
            /\ compositions = (IF Invoked THEN 1 ELSE 0)
            /\ (composedHandler # null) = Invoked)
    /\ [][(staticCompose /\ composedHandler # null)
            => UNCHANGED <<composedHandler, middlewareChain>>]_vars
    /\ [](staticCompose =>
            \A i \in InvIds : invs[i].st # "idle" =>
               /\ invs[i].links = reduce(invs[1].registered, <<handler>>)
               /\ invs[i].links = composedHandler
               /\ invs[i].registered = invs[1].registered
               /\ middlewareChain = invs[1].registered
               /\ (/\ Finished(i)
                   /\ \A k \in 1..Len(invs[1].registered) :
                          invs[1].registered[k].kind \in CallsNextOnce)
                  => invs[i].trace = Ids(composedHandler))

\* A second invocation of a static builder started while the first was
\* suspended and finished before it, with the two middlewares of the first.
C14_Witness ==
    /\ staticCompose
    /\ compositions = 1
    /\ invs[1].st = "running" /\ invs[1].trace # <<>>
    /\ Finished(2)
    /\ Len(invs[2].trace) = 3
    /\ invs[2].trace = Ids(invs[1].links)

Started == {i \in InvIds : invs[i].st # "idle"}
AwaitNext == {"append", "use", "catch"}

\* C15: in dynamic mode every invocation composes a chain of its own from
\* the list registered when it starts and leaves it in composedHandler; no
\* later step (a .use() call of the caller or of a middleware, another
\* invocation) changes the chain of an invocation that has started; the
\* stages it starts are those of its chain in the order of the chain, and
\* when its middlewares await next() once its result is the one its own
\* chain derives from the result of the handler.
C15_DynamicIndependent ==
    /\ [][~staticCompose =>
            \A i \in Started :
               /\ invs'[i].links = invs[i].links
               /\ invs'[i].registered = invs[i].registered]_vars
    /\ [][(~staticCompose /\ caller'.call = "invoke")
            => composedHandler' = reduce(middlewareChain, <<handler>>)]_vars
    /\ [](~staticCompose =>
            /\ compositions = Cardinality(Started)
            /\ \A i \in Started :
                  LET inv == invs[i]
                  IN  /\ inv.links = reduce(inv.registered, <<handler>>)
                      /\ \A k \in 1..Len(inv.trace) :
                             inv.trace[k] = inv.links[k].id
                      /\ (/\ Finished(i)
                          /\ \A k \in 1..Len(inv.registered) :
                                 inv.registered[k].kind \in AwaitNext
                          /\ handler.kind = "async")
                         => /\ inv.trace = Ids(inv.links)
                            /\ inv.out = Resolve(Derived(inv.links,
                                   Len(inv.links) - 1, 1, "ok")))

\* Invocation 1 ran a middleware that registered one more function and is
\* suspended; invocation 2, started meanwhile, overwrote the composed chain
\* with a chain of both and finished; invocation 1 keeps its own chain.
C15_Witness ==
    /\ ~staticCompose
    /\ invs[1].st = "running"
    /\ invs[1].registered = <<Mw(1, "use")>>
    /\ invs[1].trace = <<1, 0>>
    /\ Finished(2)
    /\ invs[2].registered = <<Mw(1, "use"), Mw(2, "append")>>
    /\ invs[2].trace = <<2, 1, 0>>
    /\ composedHandler = invs[2].links
    /\ composedHandler # invs[1].links

RECURSIVE Reverse(_)
Reverse(seq) ==
    IF seq = <<>> THEN <<>> ELSE Append(Reverse(Tail(seq)), Head(seq))
Front(seq) == SubSeq(seq, 1, Len(seq) - 1)

\* C16: a next() call is settled only when the stage inward of the caller
\* has settled and left the stack, and a middleware continues after next()
\* only then; so when every middleware awaits next() once, the terminal
\* handler has run and settled before any middleware continues, and the
\* middlewares continue in the reverse of the order in which they started.
C16_OnionOrder ==
    \A i \in Started :
        LET inv == invs[i]
            n == Len(inv.links)
        IN  /\ \A k \in 1..Len(inv.stack) :
                   inv.stack[k].got # NoOutcome
                   => /\ k = Len(inv.stack)
                      /\ inv.ret[inv.stack[k].d + 1] # NoOutcome
            /\ \A k \in 1..Len(inv.resumes) : \A d \in 1..(n - 1) :
                   inv.links[d].id = inv.resumes[k]
                   => inv.ret[d + 1] # NoOutcome
            /\ (\A k \in 1..Len(inv.registered) :
                    inv.registered[k].kind \in CallsNextOnce)
               => /\ inv.resumes # <<>>
                        => Ran(inv, 0) /\ inv.ret[n] # NoOutcome
                  /\ \A k \in 1..Len(inv.resumes) :
                         inv.resumes[k] = Reverse(Front(inv.trace))[k]
                  /\ Finished(i) => inv.resumes = Reverse(Front(inv.trace))

\* Two middlewares that await next(): the one that started second
\* continued first, after the terminal handler.
C16_Witness ==
    /\ Finished(1)
    /\ invs[1].registered = <<Mw(1, "append"), Mw(2, "catch")>>
    /\ invs[1].trace = <<2, 1, 0>>
    /\ invs[1].resumes = <<1, 2>>

\* C17: every middleware and the terminal handler started in an invocation
\* were called with the event and the context that the caller passed to
\* that invocation of the built handler, although every next() call is made
\* with another event and another context as arguments.
C17_SameEventAndContext ==
    \A i \in Started :
        /\ Len(invs[i].received) = Len(invs[i].trace)
        /\ \A k \in 1..Len(invs[i].received) :
               invs[i].received[k] = Arguments(i)
        /\ \A k \in 1..Len(invs[i].stack) :
               invs[i].stack[k].args = Arguments(i)

\* Two middlewares called next() with other arguments; they and the
\* terminal handler got the objects of the second invocation.
C17_Witness ==
    /\ Finished(2)
    /\ Len(invs[2].nexts) = 2
    /\ NextArguments # Arguments(2)
    /\ invs[2].received = <<Arguments(2), Arguments(2), Arguments(2)>>

\* A stage that invocation i reached returned a promise that never settles.
Hung(i) == \E k \in 1..Len(invs[i].stack) : invs[i].stack[k].pc = "hung"

\* C18: an invocation that was started eventually resolves or rejects
\* unless it reaches a stage that never settles (each middleware calling
\* next() at most once); and once it has reached such a stage, no step
\* settles it or takes it out of that stage.
C18_Settles ==
    /\ \A i \in InvIds :
           (invs[i].st = "running")
              ~> (invs[i].st \in {"resolved", "rejected"} \/ Hung(i))
    /\ [][\A i \in InvIds :
             Hung(i) => (Hung(i)' /\ invs'[i].st = "running")]_vars

\* Invocation 1 went through a middleware and the terminal handler and
\* settled; invocation 2 of the same builder, with one more middleware that
\* never settles, is still unsettled.
C18_Witness ==
    /\ ~staticCompose
    /\ Finished(1) /\ invs[1].trace = <<1, 0>> /\ invs[1].resumes = <<1>>
    /\ ~Finished(2) /\ Hung(2)
    /\ invs[2].links[Top(invs[2]).d].kind = "hang"
    /\ invs[2].links[Top(invs[2]).d].id # 0

\* C19: in static mode a .use() call with a function argument made while
\* the first invocation is in flight is refused with the state error and
\* leaves the middleware list as it is, whether the caller makes it or a
\* middleware of the chain (which then ends with that error), and whatever
\* the number of middlewares of the chain, zero included.
C19_FrozenAtStart ==
    /\ [][(/\ staticCompose /\ invs[1].st = "running"
            /\ CallerUses /\ caller'.fn)
           => /\ caller'.result = StateError
              /\ middlewareChain' = middlewareChain]_vars
    /\ [](staticCompose =>
            \A i \in Started :
               /\ middlewareChain = invs[1].registered
               /\ \A d \in 1..(Len(invs[i].links) - 1) :
                      (invs[i].links[d].kind = "use"
                         /\ Ran(invs[i], invs[i].links[d].id))
                      => invs[i].ret[d] = Throw(StateError))

\* The caller's .use() was refused while the first invocation of a static
\* builder without middlewares was waiting for its terminal handler.
C19_Witness ==
    /\ staticCompose
    /\ invs[1].st = "running"
    /\ invs[1].links = <<handler>>
    /\ invs[1].trace = <<0>>
    /\ invs[2].st = "idle"
    /\ caller.call = "use" /\ caller.fn
    /\ caller.result = StateError
    /\ middlewareChain = <<>>

\* The first invocation of a static builder was rejected with the state
\* error of the .use() call that its own middleware made.
C19_ByMiddleware ==
    /\ staticCompose
    /\ invs[1].registered = <<Mw(1, "use")>>
    /\ invs[1].out = Reject(StateError)
    /\ invs[2].st = "idle"
====
